---- MODULE Spec2Model ----
(***************************************************************************)
(* Ball count handling of a ball device (mpf/devices/ball_device/          *)
(* ball_count_handler.py): BallCountHandler and EjectTracker.              *)
(*                                                                         *)
(* The program is single-threaded cooperative (asyncio): everything a      *)
(* coroutine does between two suspension points is one atomic step.  Every *)
(* action below is such a step.  A `yield from` on a collaborator's        *)
(* coroutine (Counter.count_balls, IncomingBallsHandler.ball_arrived,      *)
(* BallDevice.lost_idle_ball) is a suspension point.                       *)
(***************************************************************************)
EXTENDS Integers, Sequences, FiniteSets, TLC

\* ------------------------------------------------------------------ bounds
MaxBalls == 2        \* the Counter reports counts in 0..MaxBalls
MaxHwChanges == 2    \* how often the physical count changes
MaxEjects == 2       \* how many ejects are started in total
MaxWaits == 1        \* how many wait_for_ball() calls are made in total
MaxFutures == 1      \* how many wait_for_ball_count_changed() calls are made
MaxTerminals == 2    \* how many terminal calls of one tracker change ball_count
MaxEntrances == 1    \* how many entrances one tracker queues
MaxUnknown == 2      \* how many unknown balls one tracker is told of
MaxInvalid == 2      \* how many calls re-resolve a slot that is resolved
MaxIncoming == 1     \* how many balls are on their way to the device
MaxReceives == 1     \* how many wait_for_ready_to_receive() calls are made
MaxDone == 2         \* how many _handle_eject_done() calls are made

Ejects == {"e1", "e2"}      \* callers that run an eject
Waiters == {"w1"}           \* callers of wait_for_ball()
Views == {"v1", "v2"}       \* holders of a future returned by wait_for_*()
FutureIds == 1..MaxFutures

VARIABLES
    \* Counter (external capability): the physical number of balls
    hw, hw_changes,
    \* BallCountHandler
    ball_count, has_balls, eject_started,
    futures,            \* _ball_count_changed_futures: sequence of future ids
    fut_result,         \* future id -> {} (pending) or {value}
    is_counting,        \* asyncio.Lock: "free" or the holder
    is_counting_waiters,\* asyncio.Lock._waiters, FIFO
    \* the background loop _run
    run_pc, run_base, run_obs, run_evt, run_new, run_todo,
    \* history of the loop's latest reconciliation pass: new count minus old
    \* count, ball_arrived() and lost_idle_ball() calls completed, and whether
    \* the pass took its count from count_balls() (the re-sync branch)
    run_diff, run_arrived, run_lost, run_resync,
    \* one eject per caller: the caller's position and its EjectTracker
    ej_pc, ej_al, ej_bracket, ej_task, ej_ready, ej_outcome, n_ejects,
    ej_pre,             \* history: {c} when ball_count was c before track_eject()
                        \* and no other operation changed ball_count since
    \* the EjectTracker's futures and queue: _eject_done, _ball_left,
    \* _ball_returned, _unknown_balls, _num_unknown_balls, _ball_entrance_queue
    ej_done,            \* {} (pending) or {classification}
    ej_ball_left, ej_ball_returned, ej_unknown, ej_num_unknown, ej_entrances,
    ej_effects,         \* history: terminal calls on the tracker that changed
                        \* ball_count
    ej_late,            \* history: a call on the tracker was accepted after a
                        \* terminal call had been forwarded
    n_invalid,          \* history: calls that raised InvalidStateError
    \* wait_for_ball() callers
    wfb_pc, wfb_obs, wfb_new, wfb_todo, n_waits,
    wfb_arrived,        \* history: ball_arrived() calls completed (by anyone)
                        \* between the call of wait_for_ball() and its return
    \* wait_for_ready_to_receive(): the incoming balls of the
    \* IncomingBallsHandler, the caller's position, the future it waits on
    incoming, rtr_pc, rtr_fut, n_receives,
    \* _handle_entrance_during_eject(): its position and its observers
    \* ball_entrance and ball_changes ("armed", "fired" or "cancelled")
    med_pc, obs_entrance, obs_activity,
    med_dropped,        \* history: an entrance taken from the queue was discarded
    \* the futures handed out by the tracker's wait_for_*() accessors: the slot
    \* each is a view of, and its state
    view_slot, view_state,
    \* history: how each _handle_eject_done() call ended, in call order
    handle_log,
    \* history: the balance of the calls made on the collaborators and the handler
    accounted           \* initial count + completed ball_arrived() calls
                        \* - eject_success() calls - ball_lost() calls
                        \* - completed lost_idle_ball() calls

counterVars == <<hw, hw_changes>>
countVars == <<ball_count, has_balls, futures, fut_result>>
lockVars == <<is_counting, is_counting_waiters>>
passVars == <<run_diff, run_arrived, run_lost, run_resync>>
runVars == <<run_pc, run_base, run_obs, run_evt, run_new, run_todo, passVars>>
trackVars == <<ej_done, ej_ball_left, ej_ball_returned, ej_unknown, ej_num_unknown,
               ej_entrances, ej_effects, ej_late, n_invalid>>
ejVars == <<ej_pc, ej_al, ej_bracket, ej_task, ej_ready, ej_outcome, n_ejects,
            trackVars>>
wfbVars == <<wfb_pc, wfb_obs, wfb_new, wfb_todo, n_waits, wfb_arrived>>
rtrVars == <<incoming, rtr_pc, rtr_fut, n_receives>>
doneVars == <<handle_log>>
midVars == <<med_pc, obs_entrance, obs_activity, med_dropped>>
viewVars == <<view_slot, view_state>>
histVars == <<accounted>>

vars == <<counterVars, countVars, eject_started, lockVars, runVars, ejVars, ej_pre,
          wfbVars, rtrVars, doneVars, midVars, viewVars, histVars>>

Range(s) == {s[i] : i \in DOMAIN s}
TheOne(S) == CHOOSE x \in S : TRUE

\* ------------------------------------------------------------ construction
\* BallCountHandler.__init__ followed by a completed initialise(): the count
\* is what the Counter reported, has_balls is set when it is positive, the
\* background loop has been started and waits at its first Util.first().
Init ==
    /\ hw \in 0..MaxBalls
    /\ hw_changes = 0
    /\ ball_count = hw
    /\ has_balls = (hw > 0)
    /\ eject_started = FALSE
    /\ futures = <<>>
    /\ fut_result = [f \in FutureIds |-> {}]
    /\ is_counting = "free"
    /\ is_counting_waiters = <<>>
    /\ run_pc = "wait"
    /\ run_base = hw
    /\ run_obs = {}
    /\ run_evt = FALSE
    /\ run_new = 0
    /\ run_todo = 0
    /\ run_diff = 0
    /\ run_arrived = 0
    /\ run_lost = 0
    /\ run_resync = FALSE
    /\ ej_pc = [e \in Ejects |-> "idle"]
    /\ ej_al = [e \in Ejects |-> FALSE]
    /\ ej_bracket = [e \in Ejects |-> FALSE]
    /\ ej_task = [e \in Ejects |-> "none"]
    /\ ej_ready = [e \in Ejects |-> FALSE]
    /\ ej_outcome = [e \in Ejects |-> "none"]
    /\ ej_pre = [e \in Ejects |-> {}]
    /\ n_ejects = 0
    /\ ej_done = [e \in Ejects |-> {}]
    /\ ej_ball_left = [e \in Ejects |-> FALSE]
    /\ ej_ball_returned = [e \in Ejects |-> FALSE]
    /\ ej_unknown = [e \in Ejects |-> FALSE]
    /\ ej_num_unknown = [e \in Ejects |-> 0]
    /\ ej_entrances = [e \in Ejects |-> 0]
    /\ ej_effects = [e \in Ejects |-> 0]
    /\ ej_late = [e \in Ejects |-> FALSE]
    /\ n_invalid = 0
    /\ wfb_pc = [w \in Waiters |-> "idle"]
    /\ wfb_obs = [w \in Waiters |-> {}]
    /\ wfb_new = [w \in Waiters |-> 0]
    /\ wfb_todo = [w \in Waiters |-> 0]
    /\ wfb_arrived = [w \in Waiters |-> 0]
    /\ n_waits = 0
    /\ incoming = 0
    /\ rtr_pc = "idle"
    /\ rtr_fut = {}
    /\ n_receives = 0
    /\ handle_log = <<>>
    /\ med_pc = "idle"
    /\ obs_entrance = "none"
    /\ obs_activity = "none"
    /\ med_dropped = FALSE
    /\ view_slot = [v \in Views |-> "none"]
    /\ view_state = [v \in Views |-> "none"]
    /\ accounted = hw

\* ------------------------------------------------------------ asyncio.Lock
\* Lock.locked()
locked == is_counting # "free"

\* Lock.acquire() returns without suspending: not locked and nobody queued.
CanAcquireNow == ~locked /\ is_counting_waiters = <<>>

\* Lock.acquire(), fast path.
AcquireNow(p) ==
    /\ is_counting' = p
    /\ UNCHANGED is_counting_waiters

\* Lock.acquire(), slow path: the caller queues and suspends.
Enqueue(p) ==
    /\ is_counting_waiters' = Append(is_counting_waiters, p)
    /\ UNCHANGED is_counting

\* The first queued waiter was woken by release() and resumes.
CanResume(p) ==
    /\ ~locked
    /\ is_counting_waiters # <<>>
    /\ Head(is_counting_waiters) = p

ResumeAcquire(p) ==
    /\ is_counting' = p
    /\ is_counting_waiters' = Tail(is_counting_waiters)

\* Lock.release(): unlocks and wakes the first queued waiter, which takes the
\* lock when it is next scheduled.
Release ==
    /\ is_counting' = "free"
    /\ UNCHANGED is_counting_waiters

\* One ball_arrived() call completed: every wait_for_ball() under way saw it.
BallArrived ==
    wfb_arrived' = [w \in Waiters |->
                      IF wfb_pc[w] \in {"wait", "notify"}
                      THEN wfb_arrived[w] + 1 ELSE wfb_arrived[w]]

\* ------------------------------------------------- the mutation routine
\* Every eject whose caller is not `who` has seen ball_count change.
Touch(who, count) ==
    ej_pre' = [e \in Ejects |->
                  IF e = who \/ count = ball_count THEN ej_pre[e] ELSE {}]

\* BallCountHandler._set_ball_count(count)
_set_ball_count(count) ==
    /\ ball_count' = count
    /\ has_balls' = (count > 0)
    /\ fut_result' = [f \in FutureIds |->
                        IF f \in Range(futures) /\ fut_result[f] = {}
                        THEN {count} ELSE fut_result[f]]
    /\ futures' = <<>>

\* BallCountHandler.wait_for_ball_count_changed(): a new pending future is
\* appended to the subscriber list.
wait_for_ball_count_changed ==
    /\ \E f \in FutureIds :
        /\ \A g \in FutureIds : g < f => (g \in Range(futures) \/ fut_result[g] # {})
        /\ f \notin Range(futures)
        /\ fut_result[f] = {}
        /\ futures' = Append(futures, f)
    /\ UNCHANGED <<counterVars, rtrVars, doneVars, midVars, viewVars, ball_count, has_balls, fut_result, eject_started,
                   lockVars, runVars, ejVars, ej_pre, wfbVars, histVars>>

\* --------------------------------------------------------------- Counter
\* The physical count changes by one ball (a ball enters or leaves).
CounterChange ==
    /\ hw_changes < MaxHwChanges
    /\ \E n \in {hw - 1, hw + 1} :
        /\ n \in 0..MaxBalls
        /\ hw' = n
    /\ hw_changes' = hw_changes + 1
    /\ UNCHANGED <<rtrVars, doneVars, midVars, viewVars, countVars, eject_started, lockVars, runVars, ejVars,
                   ej_pre, wfbVars, histVars>>

\* ------------------------------------------------- background loop (_run)
\* Positions of the loop:
\*   "wait"        suspended in Util.first([ball_changes, eject_started.wait()])
\*   "acq_resync"  suspended in is_counting.acquire() of the locked branch
\*   "count"       holds the lock, suspended in counter.count_balls()
\*   "acq_fresh"   suspended in is_counting.acquire() of the unlocked branch
\*   "notify"      holds the lock, suspended in ball_arrived()/lost_idle_ball()
\*   "crashed"     ended by AssertionError("Event order problem")

\* counter.wait_for_ball_count_changes(run_base) resolves with a count that
\* differs from the baseline the loop gave it.
RunObserve ==
    /\ run_pc = "wait"
    /\ run_obs = {}
    /\ hw # run_base
    /\ run_obs' = {hw}
    /\ UNCHANGED <<counterVars, rtrVars, doneVars, midVars, viewVars, countVars, eject_started, lockVars, run_pc, run_base,
                   run_evt, run_new, run_todo, passVars, ejVars, ej_pre, wfbVars,
                   histVars>>

\* The events Util.first() can report when the loop resumes: any of the two
\* that is done.
RunDone ==
    (IF run_obs # {} THEN {"ball_changes"} ELSE {}) \cup
    (IF run_evt THEN {"eject_started"} ELSE {})

\* The loop, holding the lock, has released it and is back at Util.first()
\* with a new ball_changes on the count `count` and a new eject_started.wait();
\* the history of the pass is dropped.
RunRearm(count) ==
    /\ run_pc' = "wait"
    /\ run_base' = count
    /\ run_obs' = {}
    /\ run_evt' = eject_started
    /\ run_todo' = 0
    /\ run_diff' = 0
    /\ run_arrived' = 0
    /\ run_lost' = 0
    /\ run_resync' = FALSE

\* Lines 245-257, entered holding the lock: commit the new count, then notify
\* once per ball of difference; with no difference the lock is released and
\* the loop re-armed in the same step.  `resync` tells whether new_balls came
\* from count_balls().
RunReconcile(new_balls, resync) ==
    /\ _set_ball_count(new_balls)
    /\ Touch("run", new_balls)
    /\ IF new_balls = ball_count
       THEN /\ RunRearm(new_balls)
            /\ is_counting' = "free"
       ELSE /\ run_pc' = "notify"
            /\ run_todo' = new_balls - ball_count
            /\ run_diff' = new_balls - ball_count
            /\ run_arrived' = 0
            /\ run_lost' = 0
            /\ run_resync' = resync
            /\ is_counting' = "run"
            /\ UNCHANGED <<run_base, run_obs, run_evt>>

\* Line 232: the loop takes the re-sync branch when the lock is held.
RunMustWait == locked

\* Util.first() returns and the loop runs to its next suspension point.
RunWake ==
    /\ run_pc = "wait"
    /\ \E event \in RunDone :
        IF RunMustWait
        THEN /\ Enqueue("run")
             /\ run_pc' = "acq_resync"
             /\ run_obs' = {}
             /\ UNCHANGED <<countVars, ej_pre, run_base, run_evt, run_new, run_todo,
                            passVars>>
        ELSE IF event # "ball_changes"
        THEN /\ run_pc' = "crashed"
             /\ UNCHANGED <<countVars, ej_pre, lockVars, run_base, run_obs, run_evt,
                            run_new, run_todo, passVars>>
        ELSE IF CanAcquireNow
        THEN /\ RunReconcile(TheOne(run_obs), FALSE)
             /\ UNCHANGED <<is_counting_waiters, run_new>>
        ELSE /\ Enqueue("run")
             /\ run_pc' = "acq_fresh"
             /\ run_new' = TheOne(run_obs)
             /\ UNCHANGED <<countVars, ej_pre, run_base, run_obs, run_evt, run_todo,
                            passVars>>
    /\ UNCHANGED <<counterVars, rtrVars, doneVars, midVars, viewVars, eject_started, ejVars, wfbVars, histVars>>

\* Line 234 resumes: the eject ended, the loop holds the lock and asks the
\* Counter for the count.
RunResumeResync ==
    /\ run_pc = "acq_resync"
    /\ CanResume("run")
    /\ ResumeAcquire("run")
    /\ run_pc' = "count"
    /\ UNCHANGED <<counterVars, rtrVars, doneVars, midVars, viewVars, countVars, eject_started, run_base, run_obs, run_evt,
                   run_new, run_todo, passVars, ejVars, ej_pre, wfbVars, histVars>>

\* The re-sync that reconciles with the baseline of the last ball_changes
\* instead of the count read from the Counter.
RunCount_stale ==
    /\ run_pc = "count"
    /\ RunReconcile(run_base, TRUE)
    /\ UNCHANGED <<counterVars, rtrVars, doneVars, midVars, viewVars, eject_started, is_counting_waiters,
                   run_new, ejVars, wfbVars, histVars>>

\* Line 235: counter.count_balls() returns the present count.
RunCount ==
    /\ run_pc = "count"
    /\ RunReconcile(hw, TRUE)
    /\ UNCHANGED <<counterVars, rtrVars, doneVars, midVars, viewVars, eject_started, is_counting_waiters, run_new, ejVars,
                   wfbVars, histVars>>

\* Line 241 resumes: the loop holds the lock and reconciles with the count
\* it took from ball_changes before it queued.
RunResumeFresh ==
    /\ run_pc = "acq_fresh"
    /\ CanResume("run")
    /\ is_counting_waiters' = Tail(is_counting_waiters)
    /\ RunReconcile(run_new, FALSE)
    /\ run_new' = 0
    /\ UNCHANGED <<counterVars, rtrVars, doneVars, midVars, viewVars, eject_started, ejVars, wfbVars, histVars>>

\* A notification step that ends the pass after a single call.
RunNotify_once ==
    /\ run_pc = "notify"
    /\ accounted' = IF run_todo > 0 THEN accounted + 1 ELSE accounted - 1
    /\ IF run_todo > 0 THEN BallArrived ELSE UNCHANGED wfb_arrived
    /\ RunRearm(ball_count)
    /\ Release
    /\ UNCHANGED <<counterVars, rtrVars, doneVars, midVars, viewVars, countVars, eject_started, run_new, ejVars, ej_pre,
                   wfb_pc, wfb_obs, wfb_new, wfb_todo, n_waits>>

\* Lines 250-255: one ball_arrived() or lost_idle_ball() call completes; after
\* the last one the lock is released and the loop re-armed.
RunNotify ==
    /\ run_pc = "notify"
    /\ accounted' = IF run_todo > 0 THEN accounted + 1 ELSE accounted - 1
    /\ IF run_todo > 0 THEN BallArrived ELSE UNCHANGED wfb_arrived
    /\ LET left == IF run_todo > 0 THEN run_todo - 1 ELSE run_todo + 1
       IN  IF left = 0
           THEN /\ RunRearm(ball_count)
                /\ Release
           ELSE /\ run_todo' = left
                /\ run_arrived' = IF run_todo > 0 THEN run_arrived + 1 ELSE run_arrived
                /\ run_lost' = IF run_todo > 0 THEN run_lost ELSE run_lost + 1
                /\ UNCHANGED <<run_pc, run_base, run_obs, run_evt, run_diff,
                               run_resync, lockVars>>
    /\ UNCHANGED <<counterVars, rtrVars, doneVars, midVars, viewVars, countVars, eject_started, run_new, ejVars, ej_pre,
                   wfb_pc, wfb_obs, wfb_new, wfb_todo, n_waits>>

_run ==
    \/ RunObserve
    \/ RunWake
    \/ RunResumeResync
    \/ RunCount
    \/ RunResumeFresh
    \/ RunNotify

\* ------------------------------------------------------------ eject bracket
\* Positions of an eject's caller:
\*   "idle"        no eject
\*   "lockwait"    suspended in start_eject(), in is_counting.acquire()
\*   "started"     start_eject() returned, no tracker yet
\*   "will_eject"  in track_eject(True): suspended in will_eject() on `ready`
\*   "tracking"    track_eject() returned the tracker, no terminal outcome yet
\*   "resolved"    a terminal notification reached the handler
\*   "faulted"     a terminal method of the tracker raised
\* ej_outcome is the classification whose terminal method was called.

\* asyncio.Event.set() on eject_started: a loop waiting in Util.first() has
\* its eject_started.wait() completed.
EjectStartedSet ==
    /\ eject_started' = TRUE
    /\ run_evt' = (run_evt \/ run_pc = "wait")

\* start_eject() that sets eject_started without taking is_counting.
start_eject_nolock(e) ==
    /\ ej_pc[e] = "idle"
    /\ n_ejects < MaxEjects
    /\ n_ejects' = n_ejects + 1
    /\ ej_bracket' = [ej_bracket EXCEPT ![e] = TRUE]
    /\ EjectStartedSet
    /\ ej_pc' = [ej_pc EXCEPT ![e] = "started"]
    /\ UNCHANGED <<counterVars, rtrVars, doneVars, midVars, viewVars, countVars, lockVars, run_pc, run_base, run_obs, run_new,
                   run_todo, passVars, ej_al, ej_task, ej_ready, ej_outcome, ej_pre,
                   trackVars, wfbVars, histVars>>

\* BallCountHandler.start_eject(), up to its first suspension point.
start_eject(e) ==
    /\ ej_pc[e] = "idle"
    /\ n_ejects < MaxEjects
    /\ n_ejects' = n_ejects + 1
    /\ ej_bracket' = [ej_bracket EXCEPT ![e] = TRUE]
    /\ IF CanAcquireNow
       THEN /\ AcquireNow(e)
            /\ EjectStartedSet
            /\ ej_pc' = [ej_pc EXCEPT ![e] = "started"]
       ELSE /\ Enqueue(e)
            /\ ej_pc' = [ej_pc EXCEPT ![e] = "lockwait"]
            /\ UNCHANGED <<eject_started, run_evt>>
    /\ UNCHANGED <<counterVars, rtrVars, doneVars, midVars, viewVars, countVars, run_pc, run_base, run_obs, run_new, run_todo,
                   passVars, ej_al, ej_task, ej_ready, ej_outcome, ej_pre,
                   trackVars, wfbVars, histVars>>

\* start_eject() resumes from is_counting.acquire() and returns.
StartEjectResume(e) ==
    /\ ej_pc[e] = "lockwait"
    /\ CanResume(e)
    /\ ResumeAcquire(e)
    /\ EjectStartedSet
    /\ ej_pc' = [ej_pc EXCEPT ![e] = "started"]
    /\ UNCHANGED <<counterVars, rtrVars, doneVars, midVars, viewVars, countVars, run_pc, run_base, run_obs, run_new, run_todo,
                   passVars, ej_al, ej_bracket, ej_task, ej_ready, ej_outcome,
                   ej_pre, n_ejects, trackVars, wfbVars, histVars>>

\* The caller is done with its eject: tracker and caller state are dropped.
EjectReset(e) ==
    /\ ej_pc' = [ej_pc EXCEPT ![e] = "idle"]
    /\ ej_al' = [ej_al EXCEPT ![e] = FALSE]
    /\ ej_bracket' = [ej_bracket EXCEPT ![e] = FALSE]
    /\ ej_task' = [ej_task EXCEPT ![e] = "none"]
    /\ ej_ready' = [ej_ready EXCEPT ![e] = FALSE]
    /\ ej_outcome' = [ej_outcome EXCEPT ![e] = "none"]
    /\ ej_pre' = [ej_pre EXCEPT ![e] = {}]
    /\ ej_done' = [ej_done EXCEPT ![e] = {}]
    /\ ej_ball_left' = [ej_ball_left EXCEPT ![e] = FALSE]
    /\ ej_ball_returned' = [ej_ball_returned EXCEPT ![e] = FALSE]
    /\ ej_unknown' = [ej_unknown EXCEPT ![e] = FALSE]
    /\ ej_num_unknown' = [ej_num_unknown EXCEPT ![e] = 0]
    /\ ej_entrances' = [ej_entrances EXCEPT ![e] = 0]
    /\ ej_effects' = [ej_effects EXCEPT ![e] = 0]
    /\ ej_late' = [ej_late EXCEPT ![e] = FALSE]
    /\ UNCHANGED n_invalid

\* end_eject() that clears eject_started and keeps is_counting.
end_eject_norelease(e) ==
    /\ ej_bracket[e]
    /\ ej_pc[e] \in {"started", "resolved", "faulted"}
    /\ eject_started' = FALSE
    /\ EjectReset(e)
    /\ UNCHANGED <<counterVars, rtrVars, doneVars, midVars, viewVars, countVars, lockVars, runVars, n_ejects, wfbVars,
                   histVars>>

\* end_eject() that releases is_counting and leaves eject_started set.
end_eject_keepflag(e) ==
    /\ ej_bracket[e]
    /\ ej_pc[e] \in {"started", "resolved", "faulted"}
    /\ Release
    /\ EjectReset(e)
    /\ UNCHANGED <<counterVars, rtrVars, doneVars, midVars, viewVars, countVars, eject_started, runVars,
                   n_ejects, wfbVars, histVars>>

\* BallCountHandler.end_eject(), called by the caller whose start_eject()
\* returned, once its eject (if it tracked one) has ended.
end_eject(e) ==
    /\ ej_bracket[e]
    /\ ej_pc[e] \in {"started", "resolved", "faulted"}
    /\ eject_started' = FALSE
    /\ Release
    /\ EjectReset(e)
    /\ UNCHANGED <<counterVars, rtrVars, doneVars, midVars, viewVars, countVars, runVars, n_ejects, wfbVars, histVars>>

\* An eject tracked without the bracket ends.
EjectFinish(e) ==
    /\ ~ej_bracket[e]
    /\ ej_pc[e] \in {"resolved", "faulted"}
    /\ EjectReset(e)
    /\ UNCHANGED <<counterVars, rtrVars, doneVars, midVars, viewVars, countVars, eject_started, lockVars, runVars, n_ejects,
                   wfbVars, histVars>>

\* ------------------------------------------------------------- track_eject
\* BallCountHandler.track_eject(already_left), up to its first suspension
\* point.  It is called inside a bracket (after start_eject() returned) or on
\* its own; an eject of a ball still in the device is commanded only when the
\* handler counts a ball.  With already_left the count is raised and
\* will_eject() starts the supervising task and waits for `ready`; without it
\* the tracker is returned as constructed.
track_eject(e, already_left) ==
    /\ \/ ej_pc[e] = "started" /\ UNCHANGED n_ejects
       \/ /\ ej_pc[e] = "idle"
          /\ n_ejects < MaxEjects
          /\ n_ejects' = n_ejects + 1
    /\ already_left \/ ball_count > 0
    /\ ej_al' = [ej_al EXCEPT ![e] = already_left]
    /\ IF already_left
       THEN /\ _set_ball_count(ball_count + 1)
            /\ ej_pre' = [f \in Ejects |-> IF f = e THEN {ball_count} ELSE {}]
            /\ ej_task' = [ej_task EXCEPT ![e] = "running"]
            /\ ej_pc' = [ej_pc EXCEPT ![e] = "will_eject"]
       ELSE /\ UNCHANGED countVars
            /\ ej_pre' = [ej_pre EXCEPT ![e] = {ball_count}]
            /\ ej_task' = [ej_task EXCEPT ![e] = "none"]
            /\ ej_pc' = [ej_pc EXCEPT ![e] = "tracking"]
    /\ UNCHANGED <<counterVars, rtrVars, doneVars, midVars, viewVars, eject_started, lockVars, runVars, ej_bracket, ej_ready,
                   ej_outcome, trackVars, wfbVars, histVars>>

\* track_eject() of e has built an EjectTracker that is still in use.
TrackerExists(e) == ej_pc[e] \in {"will_eject", "tracking", "resolved", "faulted"}

\* A call on the tracker of e is accepted: it is late when a terminal call
\* has been forwarded before.
Accepted(e) == ej_late' = [ej_late EXCEPT ![e] = ej_late[e] \/ ej_pc[e] = "resolved"]

\* Future.set_result() on a future that is done raises InvalidStateError.
InvalidState ==
    /\ n_invalid < MaxInvalid
    /\ n_invalid' = n_invalid + 1

\* EjectTracker.set_ready()
set_ready(e) ==
    /\ TrackerExists(e)
    /\ IF ej_ready[e]
       THEN /\ InvalidState
            /\ UNCHANGED <<ej_ready, ej_late>>
       ELSE /\ ej_ready' = [ej_ready EXCEPT ![e] = TRUE]
            /\ Accepted(e)
            /\ UNCHANGED n_invalid
    /\ UNCHANGED <<counterVars, rtrVars, doneVars, midVars, viewVars, countVars, eject_started, lockVars, runVars, ej_pc,
                   ej_al, ej_bracket, ej_task, ej_outcome, ej_pre, n_ejects,
                   ej_done, ej_ball_left, ej_ball_returned, ej_unknown,
                   ej_num_unknown, ej_entrances, ej_effects, wfbVars, histVars>>

\* track_ball_left() that raises and also drops the resolved value.
track_ball_left_clobber(e) ==
    /\ TrackerExists(e)
    /\ IF ej_ball_left[e]
       THEN /\ InvalidState
            /\ ej_ball_left' = [ej_ball_left EXCEPT ![e] = FALSE]
            /\ UNCHANGED ej_late
       ELSE /\ ej_ball_left' = [ej_ball_left EXCEPT ![e] = TRUE]
            /\ Accepted(e)
            /\ UNCHANGED n_invalid
    /\ UNCHANGED <<counterVars, rtrVars, doneVars, midVars, viewVars, countVars, eject_started, lockVars, runVars, ej_pc,
                   ej_al, ej_bracket, ej_task, ej_ready, ej_outcome, ej_pre, n_ejects,
                   ej_done, ej_ball_returned, ej_unknown, ej_num_unknown,
                   ej_entrances, ej_effects, wfbVars, histVars>>

\* EjectTracker.track_ball_left()
track_ball_left(e) ==
    /\ TrackerExists(e)
    /\ IF ej_ball_left[e]
       THEN /\ InvalidState
            /\ UNCHANGED <<ej_ball_left, ej_late>>
       ELSE /\ ej_ball_left' = [ej_ball_left EXCEPT ![e] = TRUE]
            /\ Accepted(e)
            /\ UNCHANGED n_invalid
    /\ UNCHANGED <<counterVars, rtrVars, doneVars, midVars, viewVars, countVars, eject_started, lockVars, runVars, ej_pc,
                   ej_al, ej_bracket, ej_task, ej_ready, ej_outcome, ej_pre, n_ejects,
                   ej_done, ej_ball_returned, ej_unknown, ej_num_unknown,
                   ej_entrances, ej_effects, wfbVars, histVars>>

\* EjectTracker.track_ball_returned()
track_ball_returned(e) ==
    /\ TrackerExists(e)
    /\ IF ej_ball_returned[e]
       THEN /\ InvalidState
            /\ UNCHANGED <<ej_ball_returned, ej_late>>
       ELSE /\ ej_ball_returned' = [ej_ball_returned EXCEPT ![e] = TRUE]
            /\ Accepted(e)
            /\ UNCHANGED n_invalid
    /\ UNCHANGED <<counterVars, rtrVars, doneVars, midVars, viewVars, countVars, eject_started, lockVars, runVars, ej_pc,
                   ej_al, ej_bracket, ej_task, ej_ready, ej_outcome, ej_pre, n_ejects,
                   ej_done, ej_ball_left, ej_unknown, ej_num_unknown, ej_entrances,
                   ej_effects, wfbVars, histVars>>

\* EjectTracker.track_ball_entrance(): the queue takes every entrance.
track_ball_entrance(e) ==
    /\ TrackerExists(e)
    /\ ej_entrances[e] < MaxEntrances
    /\ ej_entrances' = [ej_entrances EXCEPT ![e] = ej_entrances[e] + 1]
    /\ Accepted(e)
    /\ UNCHANGED <<counterVars, rtrVars, doneVars, midVars, viewVars, countVars, eject_started, lockVars, runVars, ej_pc,
                   ej_al, ej_bracket, ej_task, ej_ready, ej_outcome, ej_pre, n_ejects,
                   ej_done, ej_ball_left, ej_ball_returned, ej_unknown,
                   ej_num_unknown, ej_effects, n_invalid, wfbVars, histVars>>

\* EjectTracker.track_unknown_balls(balls): the number is added first, then
\* the slot is resolved.
track_unknown_balls(e, balls) ==
    /\ TrackerExists(e)
    /\ ej_num_unknown[e] + balls <= MaxUnknown
    /\ ej_num_unknown' = [ej_num_unknown EXCEPT ![e] = ej_num_unknown[e] + balls]
    /\ IF ej_unknown[e]
       THEN /\ InvalidState
            /\ UNCHANGED <<ej_unknown, ej_late>>
       ELSE /\ ej_unknown' = [ej_unknown EXCEPT ![e] = TRUE]
            /\ Accepted(e)
            /\ UNCHANGED n_invalid
    /\ UNCHANGED <<counterVars, rtrVars, doneVars, midVars, viewVars, countVars, eject_started, lockVars, runVars, ej_pc,
                   ej_al, ej_bracket, ej_task, ej_ready, ej_outcome, ej_pre, n_ejects,
                   ej_done, ej_ball_left, ej_ball_returned, ej_entrances,
                   ej_effects, wfbVars, histVars>>

\* will_eject() resumes on `ready` and track_eject() returns the tracker.
TrackEjectReturn(e) ==
    /\ ej_pc[e] = "will_eject"
    /\ ej_ready[e]
    /\ ej_pc' = [ej_pc EXCEPT ![e] = "tracking"]
    /\ UNCHANGED <<counterVars, rtrVars, doneVars, midVars, viewVars, countVars, eject_started, lockVars, runVars, ej_al,
                   ej_bracket, ej_task, ej_ready, ej_outcome, ej_pre, n_ejects,
                   trackVars, wfbVars, histVars>>

\* -------------------------------------------------- terminal notifications
\* eject_success() that leaves the count alone.
eject_success_keep ==
    /\ UNCHANGED countVars
    /\ accounted' = accounted - 1

\* BallCountHandler.eject_success()
eject_success ==
    /\ _set_ball_count(ball_count - 1)
    /\ accounted' = accounted - 1

\* ball_lost() that leaves the count alone.
ball_lost_keep ==
    /\ UNCHANGED countVars
    /\ accounted' = accounted - 1

\* BallCountHandler.ball_lost()
ball_lost ==
    /\ _set_ball_count(ball_count - 1)
    /\ accounted' = accounted - 1

\* BallCountHandler.ball_returned()
ball_returned ==
    /\ UNCHANGED countVars
    /\ UNCHANGED accounted

\* The handler's method for a classification.
Notify(kind) ==
    CASE kind = "success" -> eject_success
      [] kind = "lost" -> ball_lost
      [] kind = "returned" -> ball_returned

\* self._task.cancel() of EjectTracker.eject_success()/ball_lost()/
\* ball_returned() can be made: will_eject() has set _task.
TaskSet(e) == ej_task[e] # "none"

\* EjectTracker.eject_success() / ball_lost() / ball_returned(): cancel the
\* supervising task, then call the handler's method of the same name.  With
\* _task still None the cancel raises AttributeError and nothing is forwarded.
\* On a tracker that has forwarded a terminal call before, cancel() of the
\* cancelled task does nothing and the handler's method is called again.
TrackerTerminal(e, kind) ==
    /\ ej_pc[e] \in {"tracking", "resolved"}
    /\ kind # "returned" => ej_effects[e] < MaxTerminals
    /\ IF TaskSet(e)
       THEN /\ ej_task' = [ej_task EXCEPT ![e] = "cancelled"]
            /\ Notify(kind)
            /\ Touch(e, ball_count')
            /\ ej_outcome' = [ej_outcome EXCEPT ![e] = kind]
            /\ ej_pc' = [ej_pc EXCEPT ![e] = "resolved"]
            /\ ej_effects' = [ej_effects EXCEPT ![e] =
                                 IF ball_count' # ball_count THEN @ + 1 ELSE @]
            /\ Accepted(e)
       ELSE /\ ej_outcome' = [ej_outcome EXCEPT ![e] = kind]
            /\ ej_pc' = [ej_pc EXCEPT ![e] = "faulted"]
            /\ UNCHANGED <<countVars, ej_pre, ej_task, accounted, ej_effects, ej_late>>
    /\ UNCHANGED <<counterVars, rtrVars, doneVars, midVars, viewVars, eject_started, lockVars, runVars, ej_al, ej_bracket,
                   ej_ready, n_ejects, ej_done, ej_ball_left, ej_ball_returned,
                   ej_unknown, ej_num_unknown, ej_entrances, n_invalid, wfbVars>>

TrackerEjectSuccess(e) == TrackerTerminal(e, "success")
TrackerBallLost(e) == TrackerTerminal(e, "lost")
TrackerBallReturned(e) == TrackerTerminal(e, "returned")

\* ---------------------------------------------------------- wait_for_ball
\* Positions of a wait_for_ball() caller:
\*   "idle"      not called
\*   "wait"      suspended on counter.wait_for_ball_count_changes(0)
\*   "notify"    suspended in ball_arrived()
\*   "returned"  wait_for_ball() returned

\* wait_for_ball() is called: it returns at once when the handler counts a
\* ball, and otherwise waits for the Counter.
WfbCall(w) ==
    /\ wfb_pc[w] = "idle"
    /\ n_waits < MaxWaits
    /\ n_waits' = n_waits + 1
    /\ wfb_pc' = [wfb_pc EXCEPT ![w] = IF ball_count > 0 THEN "returned" ELSE "wait"]
    /\ UNCHANGED <<counterVars, rtrVars, doneVars, midVars, viewVars, countVars, eject_started, lockVars, runVars, ejVars,
                   ej_pre, wfb_obs, wfb_new, wfb_todo, wfb_arrived, histVars>>

\* counter.wait_for_ball_count_changes(0) resolves with a count other than 0.
WfbObserve(w) ==
    /\ wfb_pc[w] = "wait"
    /\ wfb_obs[w] = {}
    /\ hw # 0
    /\ wfb_obs' = [wfb_obs EXCEPT ![w] = {hw}]
    /\ UNCHANGED <<counterVars, rtrVars, doneVars, midVars, viewVars, countVars, eject_started, lockVars, runVars, ejVars,
                   ej_pre, wfb_pc, wfb_new, wfb_todo, n_waits, wfb_arrived, histVars>>

\* Lines 167-176: wait_for_ball() resumes with new_balls, writes it into
\* _ball_count directly and, when it is an increase, starts notifying.
WfbResume(w) ==
    /\ wfb_pc[w] = "wait"
    /\ wfb_obs[w] # {}
    /\ LET new_balls == TheOne(wfb_obs[w])
       IN  /\ ball_count' = new_balls
           /\ Touch(w, new_balls)
           /\ wfb_new' = [wfb_new EXCEPT ![w] = new_balls]
           /\ IF new_balls > ball_count
              THEN /\ wfb_todo' = [wfb_todo EXCEPT ![w] = new_balls - ball_count]
                   /\ wfb_pc' = [wfb_pc EXCEPT ![w] = "notify"]
              ELSE /\ wfb_todo' = [wfb_todo EXCEPT ![w] = 0]
                   /\ wfb_pc' = [wfb_pc EXCEPT ![w] = "returned"]
    /\ wfb_obs' = [wfb_obs EXCEPT ![w] = {}]
    /\ UNCHANGED <<counterVars, rtrVars, doneVars, midVars, viewVars, has_balls, futures, fut_result, eject_started, lockVars,
                   runVars, ejVars, n_waits, wfb_arrived, histVars>>

\* Lines 175-177: one ball_arrived() call completes; after the last one
\* _set_ball_count(new_balls) runs and wait_for_ball() returns.
WfbNotify(w) ==
    /\ wfb_pc[w] = "notify"
    /\ accounted' = accounted + 1
    /\ BallArrived
    /\ wfb_todo' = [wfb_todo EXCEPT ![w] = wfb_todo[w] - 1]
    /\ IF wfb_todo[w] = 1
       THEN /\ _set_ball_count(wfb_new[w])
            /\ Touch(w, wfb_new[w])
            /\ wfb_pc' = [wfb_pc EXCEPT ![w] = "returned"]
       ELSE UNCHANGED <<countVars, ej_pre, wfb_pc>>
    /\ UNCHANGED <<counterVars, rtrVars, doneVars, midVars, viewVars, eject_started, lockVars, runVars, ejVars, wfb_obs,
                   wfb_new, n_waits>>

wait_for_ball(w) ==
    \/ WfbCall(w)
    \/ WfbObserve(w)
    \/ WfbResume(w)
    \/ WfbNotify(w)

\* ------------------------------------------------ wait_for_ready_to_receive
\* Positions of the wait_for_ready_to_receive() caller:
\*   "idle"       not called
\*   "suspended"  suspended on the future of wait_for_ball_count_changed()
\*   "returned"   wait_for_ready_to_receive() returned True

\* config['ball_capacity'] of the device
ball_capacity == MaxBalls

\* IncomingBallsHandler._incoming_balls gains or loses a ball.
IncomingChange ==
    /\ \E n \in {incoming - 1, incoming + 1} :
        /\ n \in 0..MaxIncoming
        /\ incoming' = n
    /\ UNCHANGED <<counterVars, doneVars, midVars, viewVars, countVars, eject_started, lockVars, runVars,
                   ejVars, ej_pre, wfbVars, rtr_pc, rtr_fut, n_receives, histVars>>

\* Line 190 with the comparison made non-strict.
ReadyToReceive_nonstrict == ball_capacity - ball_count >= incoming

\* Lines 188-190: free_space > incoming_balls
ReadyToReceive == ball_capacity - ball_count > incoming

\* Lines 187-200, one turn of the loop: return True, or subscribe to the next
\* count change and suspend.  `freed` is the future the caller has just been
\* resumed from, which nobody holds any more.
ReceiveTurn(freed) ==
    IF ReadyToReceive
    THEN /\ rtr_pc' = "returned"
         /\ rtr_fut' = {}
         /\ fut_result' = [f \in FutureIds |-> IF f \in freed THEN {} ELSE fut_result[f]]
         /\ UNCHANGED futures
    ELSE \E f \in FutureIds :
            /\ f \notin Range(futures)
            /\ f \in freed \/ fut_result[f] = {}
            /\ \A g \in FutureIds : g < f =>
                   (g \in Range(futures) \/ (g \notin freed /\ fut_result[g] # {}))
            /\ futures' = Append(futures, f)
            /\ fut_result' = [g \in FutureIds |-> IF g \in freed THEN {} ELSE fut_result[g]]
            /\ rtr_fut' = {f}
            /\ rtr_pc' = "suspended"

\* wait_for_ready_to_receive(source) is called.
ReceiveCall ==
    /\ rtr_pc \in {"idle", "returned"}
    /\ n_receives < MaxReceives
    /\ n_receives' = n_receives + 1
    /\ ReceiveTurn({})
    /\ UNCHANGED <<counterVars, doneVars, midVars, viewVars, ball_count, has_balls, eject_started,
                   lockVars, runVars, ejVars, ej_pre, wfbVars, incoming, histVars>>

\* Line 200 resumes: the future was resolved by a count change.
ReceiveResume ==
    /\ rtr_pc = "suspended"
    /\ fut_result[TheOne(rtr_fut)] # {}
    /\ ReceiveTurn(rtr_fut)
    /\ UNCHANGED <<counterVars, doneVars, midVars, viewVars, ball_count, has_balls, eject_started,
                   lockVars, runVars, ejVars, ej_pre, wfbVars, incoming, n_receives,
                   histVars>>

wait_for_ready_to_receive ==
    \/ ReceiveCall
    \/ ReceiveResume

\* ------------------------------------------------------ _handle_eject_done
\* The classifications of an eject, and the results _handle_eject_done() is
\* given: a classification or anything else.
Classifications == {"success", "returned", "lost"}
Results == Classifications \cup {"other"}

\* _handle_eject_done() that takes an unknown result for "returned".
_handle_eject_done_coerce(result) ==
    /\ Len(handle_log) < MaxDone
    /\ handle_log' = Append(handle_log, "done")
    /\ IF result \in {"success", "lost"}
       THEN /\ _set_ball_count(ball_count - 1)
            /\ Touch("done", ball_count - 1)
            /\ accounted' = accounted - 1
       ELSE UNCHANGED <<countVars, ej_pre, accounted>>
    /\ UNCHANGED <<counterVars, rtrVars, viewVars, eject_started, lockVars, runVars,
                   ejVars, wfbVars>>

\* BallCountHandler._handle_eject_done(result)
_handle_eject_done(result) ==
    /\ Len(handle_log) < MaxDone
    /\ IF result \in {"success", "lost"}
       THEN /\ _set_ball_count(ball_count - 1)
            /\ Touch("done", ball_count - 1)
            /\ accounted' = accounted - 1
            /\ handle_log' = Append(handle_log, "done")
       ELSE IF result = "returned"
       THEN /\ handle_log' = Append(handle_log, "done")
            /\ UNCHANGED <<countVars, ej_pre, accounted>>
       ELSE /\ handle_log' = Append(handle_log, "AssertionError")
            /\ UNCHANGED <<countVars, ej_pre, accounted>>
    /\ UNCHANGED <<counterVars, rtrVars, viewVars, eject_started, lockVars, runVars,
                   ejVars, wfbVars>>

\* ------------------------------------------- _handle_entrance_during_eject
\* Positions of the routine:
\*   "idle"            not called
\*   "racing"          suspended in Util.first([eject_done, ball_entrance,
\*                     ball_changes], cancel_others=False)
\*   "returned"        returned
\*   "TypeError"       ended by the TypeError of `yield from None`
\*   "AssertionError"  ended by the AssertionError of _handle_eject_done()

\* The outcome slot _eject_done of the tracker is resolved.
EjectDoneResolve(e, result) ==
    /\ TrackerExists(e)
    /\ ej_done[e] = {}
    /\ ej_done' = [ej_done EXCEPT ![e] = {result}]
    /\ UNCHANGED <<counterVars, rtrVars, doneVars, viewVars, countVars, eject_started, lockVars,
                   runVars, ej_pc, ej_al, ej_bracket, ej_task, ej_ready, ej_outcome,
                   n_ejects, ej_pre, ej_ball_left, ej_ball_returned, ej_unknown,
                   ej_num_unknown, ej_entrances, ej_effects, ej_late, n_invalid,
                   wfbVars, histVars>>

\* Lines 264-266: the routine is called with the tracker and arms its
\* observers.
MidStart(e) ==
    /\ med_pc = "idle"
    /\ TrackerExists(e)
    /\ med_pc' = "racing"
    /\ obs_entrance' = "armed"
    /\ obs_activity' = "armed"
    /\ UNCHANGED <<counterVars, rtrVars, doneVars, viewVars, countVars, eject_started,
                   lockVars, runVars, ejVars, ej_pre, wfbVars, histVars, med_dropped>>

\* The task of wait_for_ball_entrance() takes an entrance from the queue.
EntranceFire(e) ==
    /\ obs_entrance = "armed"
    /\ ej_entrances[e] > 0
    /\ ej_entrances' = [ej_entrances EXCEPT ![e] = ej_entrances[e] - 1]
    /\ obs_entrance' = "fired"
    /\ UNCHANGED <<counterVars, rtrVars, doneVars, viewVars, countVars, eject_started,
                   lockVars, runVars, ej_pc, ej_al, ej_bracket, ej_task, ej_ready,
                   ej_outcome, n_ejects, ej_pre, ej_done, ej_ball_left,
                   ej_ball_returned, ej_unknown, ej_num_unknown, ej_effects, ej_late,
                   n_invalid, wfbVars, histVars, med_pc, obs_activity, med_dropped>>

\* counter.wait_for_ball_activity() resolves.
ActivityFire ==
    /\ obs_activity = "armed"
    /\ obs_activity' = "fired"
    /\ UNCHANGED <<counterVars, rtrVars, doneVars, viewVars, countVars, eject_started,
                   lockVars, runVars, ejVars, ej_pre, wfbVars, histVars, med_pc,
                   obs_entrance, med_dropped>>

\* Lines 269-285: Util.first() returns and the routine runs to its next
\* suspension point or to its end.  With the outcome resolved it cancels the
\* two observers, calls _handle_eject_done(result) and applies `yield from`
\* to what that returns, which is None.  Otherwise it replaces each observer
\* that is done; the result of a done ball_entrance is not read.
MidWake(e) ==
    /\ med_pc = "racing"
    /\ ej_done[e] # {} \/ obs_entrance = "fired" \/ obs_activity = "fired"
    /\ med_dropped' = (med_dropped \/ obs_entrance = "fired")
    /\ IF ej_done[e] # {}
       THEN /\ obs_entrance' = IF obs_entrance = "armed" THEN "cancelled" ELSE obs_entrance
            /\ obs_activity' = IF obs_activity = "armed" THEN "cancelled" ELSE obs_activity
            /\ _handle_eject_done(TheOne(ej_done[e]))
            /\ med_pc' = IF TheOne(ej_done[e]) \in Classifications
                         THEN "TypeError" ELSE "AssertionError"
       ELSE /\ obs_entrance' = "armed"
            /\ obs_activity' = "armed"
            /\ UNCHANGED med_pc
            /\ UNCHANGED <<counterVars, rtrVars, doneVars, viewVars, countVars,
                           eject_started, lockVars, runVars, ejVars, ej_pre, wfbVars,
                           histVars>>

_handle_entrance_during_eject(e) ==
    \/ MidStart(e)
    \/ EntranceFire(e)
    \/ ActivityFire
    \/ MidWake(e)

\* ------------------------------------------------------- wait_for_* views
\* The one-shot slots of a tracker that a wait_for_*() accessor gives a view of.
Slots == {"ball_left", "ball_returned", "unknown_balls", "ready", "eject_done"}

SlotResolved(e, slot) ==
    CASE slot = "ball_left" -> ej_ball_left[e]
      [] slot = "ball_returned" -> ej_ball_returned[e]
      [] slot = "unknown_balls" -> ej_unknown[e]
      [] slot = "ready" -> ej_ready[e]
      [] slot = "eject_done" -> ej_done[e] # {}
      [] OTHER -> FALSE

\* wait_for_ball_left() / wait_for_ball_return() / wait_for_ball_unknown_ball()
\* / wait_for_ready() / wait_for_eject_done(): asyncio.shield(slot).  On a
\* slot that is done shield() returns the slot itself.
ViewGet(e, v, slot) ==
    /\ TrackerExists(e)
    /\ view_state[v] = "none"
    /\ view_slot' = [view_slot EXCEPT ![v] = slot]
    /\ view_state' = [view_state EXCEPT ![v] =
                         IF SlotResolved(e, slot) THEN "done" ELSE "pending"]
    /\ UNCHANGED <<counterVars, rtrVars, doneVars, midVars, countVars, eject_started,
                   lockVars, runVars, ejVars, ej_pre, wfbVars, histVars>>

\* The slot is done: shield() copies its result to a view that was not
\* cancelled.
ViewDeliver(e, v) ==
    /\ view_state[v] = "pending"
    /\ SlotResolved(e, view_slot[v])
    /\ view_state' = [view_state EXCEPT ![v] = "done"]
    /\ UNCHANGED <<counterVars, rtrVars, doneVars, midVars, countVars, eject_started,
                   lockVars, runVars, ejVars, ej_pre, wfbVars, histVars, view_slot>>

\* A cancel() that reaches every view of the same slot.
ViewCancel_all(v) ==
    /\ view_state[v] = "pending"
    /\ view_state' = [w \in Views |->
                         IF view_state[w] = "pending" /\ view_slot[w] = view_slot[v]
                         THEN "cancelled" ELSE view_state[w]]
    /\ UNCHANGED <<counterVars, rtrVars, doneVars, midVars, countVars, eject_started,
                   lockVars, runVars, ejVars, ej_pre, wfbVars, histVars, view_slot>>

\* A waiter cancels its view: shield() keeps the cancellation from the slot.
ViewCancel(v) ==
    /\ view_state[v] = "pending"
    /\ view_state' = [view_state EXCEPT ![v] = "cancelled"]
    /\ UNCHANGED <<counterVars, rtrVars, doneVars, midVars, countVars, eject_started,
                   lockVars, runVars, ejVars, ej_pre, wfbVars, histVars, view_slot>>

\* ------------------------------------------------------------ specification
\* The supervising task of the Counter calls set_ready() once.
ReadyOnce(e) == ej_task[e] = "running" /\ ~ej_ready[e] /\ set_ready(e)

\* The tracker of e was returned and no terminal method was called on it: the
\* protocol allows one terminal call per eject.
Tracking(e) == ej_pc[e] = "tracking"

\* The operations of one eject, used as the protocol prescribes.
Eject(e) ==
    \/ start_eject(e)
    \/ StartEjectResume(e)
    \/ end_eject(e)
    \/ EjectFinish(e)
    \/ \E already_left \in BOOLEAN : track_eject(e, already_left)
    \/ ReadyOnce(e)
    \/ TrackEjectReturn(e)
    \/ Tracking(e) /\ TrackerEjectSuccess(e)
    \/ Tracking(e) /\ TrackerBallLost(e)
    \/ Tracking(e) /\ TrackerBallReturned(e)

\* The handler with its background loop, the Counter and the eject callers.
Next ==
    \/ CounterChange
    \/ _run
    \/ \E e \in Ejects : Eject(e)

Spec == Init /\ [][Next]_vars

\* The bracket alone: start_eject() ... end_eject().
Bracket(e) ==
    \/ start_eject(e)
    \/ StartEjectResume(e)
    \/ end_eject(e)

\* The handler with its background loop, the Counter, wait_for_ball()
\* callers, count-changed subscribers and one caller of the bracket.
NextWait ==
    \/ CounterChange
    \/ _run
    \/ wait_for_ball_count_changed
    \/ \E w \in Waiters : wait_for_ball(w)
    \/ Bracket("e1")

SpecWait == Init /\ [][NextWait]_vars

\* The handler with its background loop, the Counter, count-changed
\* subscribers and one eject caller.
NextNotify ==
    \/ CounterChange
    \/ _run
    \/ wait_for_ball_count_changed
    \/ Eject("e1")

SpecNotify == Init /\ [][NextNotify]_vars

\* One EjectTracker with the calls any holder of the tracker can make on it,
\* in any order and any number of times.
Tracker(e) ==
    \/ \E already_left \in BOOLEAN : track_eject(e, already_left)
    \/ set_ready(e)
    \/ TrackEjectReturn(e)
    \/ TrackerEjectSuccess(e)
    \/ TrackerBallLost(e)
    \/ TrackerBallReturned(e)
    \/ track_ball_left(e)
    \/ track_ball_returned(e)
    \/ track_ball_entrance(e)
    \/ \E balls \in 1..MaxUnknown : track_unknown_balls(e, balls)
    \/ EjectFinish(e)

NextTracker == Tracker("e1")

SpecTracker == Init /\ [][NextTracker]_vars

\* The handler with its background loop, the Counter, the incoming balls, a
\* caller of wait_for_ready_to_receive() and one caller of the bracket.
NextReceive ==
    \/ CounterChange
    \/ _run
    \/ IncomingChange
    \/ wait_for_ready_to_receive
    \/ Bracket("e1")

SpecReceive == Init /\ [][NextReceive]_vars

\* The handler with its background loop, the Counter, count-changed
\* subscribers, one caller of the bracket and calls of _handle_eject_done().
NextDone ==
    \/ CounterChange
    \/ _run
    \/ wait_for_ball_count_changed
    \/ Bracket("e1")
    \/ \E result \in Results : _handle_eject_done(result) /\ UNCHANGED midVars

SpecDone == Init /\ [][NextDone]_vars

\* One tracked eject with the mid-eject reconciliation routine running on its
\* tracker, the entrances reported to the tracker and the resolution of its
\* outcome slot.
NextMid ==
    \/ \E already_left \in BOOLEAN : track_eject("e1", already_left) /\ UNCHANGED midVars
    \/ ReadyOnce("e1") /\ UNCHANGED midVars
    \/ TrackEjectReturn("e1") /\ UNCHANGED midVars
    \/ track_ball_entrance("e1") /\ UNCHANGED midVars
    \/ \E result \in Results : EjectDoneResolve("e1", result) /\ UNCHANGED midVars
    \/ _handle_entrance_during_eject("e1")

SpecMid == Init /\ [][NextMid]_vars

\* One tracked eject on which both ways of applying the outcome are open: the
\* tracker's terminal methods and the mid-eject routine.
NextEject ==
    \/ NextMid
    \/ Tracking("e1") /\ TrackerEjectSuccess("e1")
    \/ Tracking("e1") /\ TrackerBallLost("e1")
    \/ Tracking("e1") /\ TrackerBallReturned("e1")

SpecEject == Init /\ [][NextEject]_vars

\* One tracker, the calls that resolve its slots and the waiters that hold
\* views of them.
NextViews ==
    \/ \E already_left \in BOOLEAN : track_eject("e1", already_left)
    \/ set_ready("e1")
    \/ TrackEjectReturn("e1")
    \/ track_ball_left("e1")
    \/ track_ball_returned("e1")
    \/ \E balls \in 1..MaxUnknown : track_unknown_balls("e1", balls)
    \/ \E v \in Views, slot \in Slots : ViewGet("e1", v, slot)
    \/ \E v \in Views : ViewDeliver("e1", v)
    \/ \E v \in Views : ViewCancel(v)

SpecViews == Init /\ [][NextViews]_vars

\* The scheduler runs every task that is ready: the background loop's steps
\* and the resumption of a start_eject() woken by release().  The callers'
\* own decisions (end_eject(), terminal notifications) are not forced.
Fairness ==
    /\ WF_vars(_run)
    /\ \A e \in Ejects : WF_vars(StartEjectResume(e))

FairSpec == Spec /\ Fairness

\* The same scheduler for wait_for_ready_to_receive(): a caller whose future
\* was resolved is resumed.
FairnessReceive ==
    /\ WF_vars(_run)
    /\ WF_vars(StartEjectResume("e1"))
    /\ WF_vars(ReceiveResume)

FairSpecReceive == SpecReceive /\ FairnessReceive

\* ------------------------------------------------------------------ claims
\* start_eject() of e returned and its end_eject() has not run.
InBracket(e) == ej_bracket[e] /\ ej_pc[e] # "idle" /\ ej_pc[e] # "lockwait"

\* track_eject() of e created a tracker that has no terminal outcome yet.
Outstanding(e) == ej_pc[e] \in {"will_eject", "tracking"}

\* C1: ball_count is never negative in any state reachable from a completed
\* initialise().
C1_NeverNegative == ball_count >= 0

\* C2: between the return of start_eject() and the matching end_eject() the
\* background loop never holds is_counting (the bracket's caller does) and no
\* step of the loop changes ball_count.
C2_MutualExclusion ==
    [][(\E e \in Ejects : InBracket(e)) =>
         /\ is_counting # "run"
         /\ \A e \in Ejects : InBracket(e) => is_counting = e
         /\ _run => ball_count' = ball_count]_vars

\* C2 witness: inside a bracket the loop is queued on the lock while the
\* Counter already reports a count other than ball_count.
C2_Witness ==
    \E e \in Ejects :
        /\ InBracket(e)
        /\ ej_pc[e] = "tracking"
        /\ run_pc = "acq_resync"
        /\ hw # ball_count

\* C3: while one EjectTracker is outstanding a second track_eject() creates no
\* tracker: two trackers are never outstanding together.
C3_SecondTrackEjectSuspends ==
    \A e, f \in Ejects : e # f => ~(Outstanding(e) /\ Outstanding(f))

\* C4: end_eject() leaves is_counting free and eject_started clear; a
\* start_eject() issued while a bracket is open suspends without setting
\* eject_started, so two brackets are never open together; and a suspended
\* start_eject() eventually returns unless another caller's bracket is open.
C4_BracketRestoresLock ==
    /\ [][\A e \in Ejects :
            /\ (InBracket(e) /\ ~InBracket(e)') =>
                   (is_counting' = "free" /\ ~eject_started')
            /\ (ej_pc[e] = "idle" /\ ej_pc'[e] # "idle" /\ ej_bracket'[e]
                    /\ \E f \in Ejects : InBracket(f)) =>
                   (ej_pc'[e] = "lockwait" /\ UNCHANGED <<eject_started, is_counting>>)
            /\ \A f \in Ejects : (InBracket(e)' /\ InBracket(f)') => e = f]_vars
    /\ \A e \in Ejects :
          (ej_pc[e] = "lockwait") ~>
              (ej_pc[e] = "started" \/ \E f \in Ejects : f # e /\ InBracket(f))

\* C4 witness: a second start_eject() is suspended behind an open bracket.
C4_Witness ==
    \E e, f \in Ejects :
        /\ ej_pc[e] = "lockwait"
        /\ InBracket(f)
        /\ is_counting = f
        /\ eject_started

\* C5: a terminal notification that reaches the handler changes ball_count by
\* exactly -1 for success and for lost, through the mutation routine (has_balls
\* follows the count, every pending subscriber gets the new value and the
\* subscriber list is emptied); for returned it leaves ball_count, has_balls
\* and the subscriber list unchanged.
C5_TerminalNotifications ==
    [][\A e \in Ejects :
          (ej_pc[e] = "tracking" /\ ej_pc'[e] = "resolved") =>
             IF ej_outcome'[e] \in {"success", "lost"}
             THEN /\ ball_count' = ball_count - 1
                  /\ has_balls' = (ball_count' > 0)
                  /\ futures' = <<>>
                  /\ \A f \in Range(futures) :
                        fut_result[f] = {} => fut_result'[f] = {ball_count'}
             ELSE /\ ej_outcome'[e] = "returned"
                  /\ UNCHANGED <<ball_count, has_balls, futures, fut_result>>]_vars

\* C5 witness: a lost notification was delivered to a subscriber that waited.
C5_Witness ==
    \E e \in Ejects :
        /\ ej_pc[e] = "resolved"
        /\ ej_outcome[e] = "lost"
        /\ futures = <<>>
        /\ \E f \in FutureIds : fut_result[f] = {ball_count}

\* No operation is in progress: the loop waits with no observation delivered,
\* no eject is under way and no wait_for_ball() is suspended.
Quiescent ==
    /\ run_pc = "wait"
    /\ run_obs = {}
    /\ \A e \in Ejects : ej_pc[e] = "idle"
    /\ \A w \in Waiters : wfb_pc[w] \in {"idle", "returned"}

\* C6: once all operations in progress have completed, ball_count equals the
\* initial count plus the arrivals notified, minus the eject successes, the
\* eject losses and the idle losses notified, and it is not negative.
C6_CountAccounting == Quiescent => (ball_count = accounted /\ ball_count >= 0)

\* C7: track_eject(already_left=True) makes ball_count c + 1 at once, before it
\* waits for `ready`, and eject_success() then brings it back to c (as long as
\* no other operation changed ball_count in between).
C7_RoundTrip ==
    \A e \in Ejects :
        (ej_al[e] /\ ej_pre[e] # {}) =>
            /\ Outstanding(e) => ball_count = TheOne(ej_pre[e]) + 1
            /\ (ej_pc[e] = "resolved" /\ ej_outcome[e] = "success") =>
                   ball_count = TheOne(ej_pre[e])

\* C7 witness: Scenario B, 1 -> 2 -> 1.
C7_Witness ==
    \E e \in Ejects :
        /\ ej_al[e]
        /\ ej_pc[e] = "resolved"
        /\ ej_outcome[e] = "success"
        /\ ej_pre[e] = {1}
        /\ ball_count = 1

\* C8: an eject tracked with already_left=False and classified success through
\* its tracker completes without fault and leaves ball_count at c - 1, c being
\* the count before track_eject().
C8_ScenarioA ==
    \A e \in Ejects :
        (~ej_al[e] /\ ej_outcome[e] = "success") =>
            /\ ej_pc[e] = "resolved"
            /\ ej_pre[e] # {} => ball_count = TheOne(ej_pre[e]) - 1

\* C9: when the tracker's ball_returned() is called, for either value of
\* already_left, the eject is classified returned and ball_count equals its
\* value before track_eject().
C9_ScenarioC ==
    \A e \in Ejects :
        ej_outcome[e] = "returned" =>
            /\ ej_pc[e] = "resolved"
            /\ ej_pre[e] # {} => ball_count = TheOne(ej_pre[e])

\* C10: a wait_for_ball() that waited at count 0 and took the count n > 0 the
\* Counter still reports returns only after n ball_arrived() calls have
\* completed since it was called; one that found a ball returned at once.
C10_WaitForBall ==
    \A w \in Waiters :
        wfb_pc[w] = "returned" =>
            IF wfb_new[w] = 0
            THEN wfb_arrived[w] = 0
            ELSE hw = wfb_new[w] => wfb_arrived[w] = wfb_new[w]

\* C11: a reconciliation pass of the background loop that takes the new count
\* n against the old count o makes n - o ball_arrived() calls and no
\* lost_idle_ball() call when n > o, o - n lost_idle_ball() calls and no
\* ball_arrived() call when n < o, and no call at all otherwise; the loop holds
\* is_counting from the commit of n to its last call and releases it then.
C11_Reconciliation ==
    [][/\ run_pc = "notify" =>
            /\ is_counting = "run"
            /\ run_diff # 0
            /\ run_diff > 0 => (run_lost = 0 /\ run_arrived < run_diff)
            /\ run_diff < 0 => (run_arrived = 0 /\ run_lost < -run_diff)
       /\ (_run /\ run_pc # "notify") =>
            /\ accounted' = accounted
            /\ run_pc' = "notify" =>
                  /\ run_diff' = ball_count' - ball_count
                  /\ run_arrived' = 0 /\ run_lost' = 0
                  /\ is_counting' = "run"
            /\ ball_count' # ball_count => run_pc' = "notify"
       /\ (_run /\ run_pc = "notify") =>
            /\ accounted' = IF run_diff > 0 THEN accounted + 1 ELSE accounted - 1
            /\ IF run_pc' = "notify"
               THEN /\ run_arrived' = run_arrived + (IF run_diff > 0 THEN 1 ELSE 0)
                    /\ run_lost' = run_lost + (IF run_diff < 0 THEN 1 ELSE 0)
                    /\ UNCHANGED <<run_diff, is_counting>>
               ELSE /\ run_pc' = "wait"
                    /\ run_diff > 0 => run_arrived + 1 = run_diff
                    /\ run_diff < 0 => run_lost + 1 = -run_diff
                    /\ is_counting' = "free"]_vars

\* C11 witness: Scenario E with no eject ever started: the loop took 0 against
\* 2, has made the first of its two idle-loss calls and holds the lock.
C11_Witness ==
    /\ n_ejects = 0
    /\ run_pc = "notify"
    /\ run_diff = -2
    /\ run_lost = 1
    /\ run_arrived = 0
    /\ is_counting = "run"

\* C12: a tracker on which a terminal call was forwarded has exactly one
\* terminal outcome: at most one terminal call changed ball_count, the
\* _eject_done slot read through wait_for_eject_done() holds the
\* classification, and no later call on the tracker (an event or another
\* terminal call) was accepted.
C12_OneTerminalOutcome ==
    \A e \in Ejects :
        ej_pc[e] = "resolved" =>
            /\ ej_effects[e] <= 1
            /\ ej_done[e] = {ej_outcome[e]}
            /\ ~ej_late[e]

\* A call raised InvalidStateError and changed nothing else.
RaisedOnly ==
    /\ n_invalid' = n_invalid + 1
    /\ UNCHANGED <<counterVars, rtrVars, doneVars, midVars, viewVars, countVars, eject_started, lockVars, runVars, ej_pc,
                   ej_al, ej_bracket, ej_task, ej_ready, ej_outcome, n_ejects, ej_pre,
                   ej_done, ej_ball_left, ej_ball_returned, ej_unknown,
                   ej_num_unknown, ej_entrances, ej_effects, ej_late, wfbVars,
                   histVars>>

\* C13: a one-shot slot of a tracker (ball_left, ball_returned, ready,
\* unknown_balls) that is resolved stays resolved as long as the tracker is in
\* use, and a track_ball_left(), track_ball_returned() or set_ready() on a
\* resolved slot raises and changes no tracker or handler state.
C13_SlotsResolveOnce ==
    [][\A e \in Ejects :
          /\ (TrackerExists(e) /\ TrackerExists(e)') =>
                /\ ej_ball_left[e] => ej_ball_left'[e]
                /\ ej_ball_returned[e] => ej_ball_returned'[e]
                /\ ej_ready[e] => ej_ready'[e]
                /\ ej_unknown[e] => ej_unknown'[e]
          /\ (ej_ball_left[e] /\ track_ball_left(e)) => RaisedOnly
          /\ (ej_ball_returned[e] /\ track_ball_returned(e)) => RaisedOnly
          /\ (ej_ready[e] /\ set_ready(e)) => RaisedOnly]_vars

\* C13 witness: on the first tracker only ball_left is resolved and a second
\* track_ball_left() has raised.
C13_Witness ==
    /\ n_ejects = 1
    /\ n_invalid = 1
    /\ ej_ball_left["e1"]
    /\ ~ej_ball_returned["e1"]
    /\ ~ej_ready["e1"]
    /\ ~ej_unknown["e1"]

\* C16: a tracker that track_eject() has returned, for either value of
\* already_left, has its supervising task started and its ready slot
\* resolved.
C16_ReturnsStartedAndReady ==
    \A e \in Ejects :
        ej_pc[e] \in {"tracking", "resolved", "faulted"} =>
            /\ ej_task[e] # "none"
            /\ ej_ready[e]

\* C20: once a terminal method was called on a tracker that track_eject()
\* returned, the supervising task is cancelled and the handler's method of the
\* same name was called once: no terminal call faults.
C20_TerminalCancelsAndForwards ==
    \A e \in Ejects :
        ej_outcome[e] # "none" =>
            /\ ej_task[e] = "cancelled"
            /\ ej_pc[e] = "resolved"

\* C14: wait_for_ready_to_receive() returns only in a state where
\* ball_capacity - ball_count is greater than the number of incoming balls;
\* a turn that finds it otherwise appends exactly one future to the subscriber
\* list and suspends on it; and the caller leaves the suspension only after
\* that future was resolved, deciding on the values of that moment.
C14_ReadyToReceive ==
    [][/\ (rtr_pc # "returned" /\ rtr_pc' = "returned") =>
            /\ ball_capacity - ball_count > incoming
            /\ UNCHANGED <<ball_count, incoming, futures>>
       /\ (wait_for_ready_to_receive /\ rtr_pc' = "suspended") =>
            /\ ~(ball_capacity - ball_count > incoming)
            /\ Len(futures') = Len(futures) + 1
            /\ futures'[Len(futures')] = TheOne(rtr_fut')
            /\ fut_result'[TheOne(rtr_fut')] = {}
       /\ (rtr_pc = "suspended" /\ wait_for_ready_to_receive) =>
            fut_result[TheOne(rtr_fut)] # {}]_vars

\* C14 witness: the caller found no room for the incoming ball, subscribed
\* and suspended; a count change has resolved its future and there is room
\* now.
C14_Witness ==
    /\ rtr_pc = "suspended"
    /\ incoming = 1
    /\ fut_result[TheOne(rtr_fut)] = {ball_count}
    /\ futures = <<>>
    /\ ball_capacity - ball_count > incoming

\* C15: a count-changed future is resolved only in a step that leaves
\* ball_count at the value it is resolved with and takes it off the subscriber
\* list; once resolved it keeps its value; and every change of ball_count
\* resolves all the futures that were on the list.
C15_Subscribers ==
    [][/\ \A f \in FutureIds :
            /\ (fut_result[f] = {} /\ fut_result'[f] # {}) =>
                  /\ fut_result'[f] = {ball_count'}
                  /\ f \in Range(futures)
                  /\ f \notin Range(futures')
            /\ fut_result[f] # {} => fut_result'[f] = fut_result[f]
       /\ ball_count' # ball_count =>
            \A f \in Range(futures) : fut_result'[f] = {ball_count'}]_vars

\* C17: _handle_eject_done() given a result outside {success, returned, lost}
\* raises AssertionError and leaves ball_count, has_balls and the subscriber
\* list unchanged; given a classification it does not raise.
C17_InvalidResultIsFatal ==
    [][/\ \A result \in Results :
            _handle_eject_done(result) =>
                handle_log' = Append(handle_log,
                                     IF result \in {"success", "returned", "lost"}
                                     THEN "done" ELSE "AssertionError")
       /\ (Len(handle_log') > Len(handle_log)
               /\ handle_log'[Len(handle_log')] = "AssertionError") =>
            UNCHANGED <<ball_count, has_balls, futures, fut_result>>]_vars

\* C17 witness: a call with an unknown result has raised while a subscriber
\* is waiting and the handler counts a ball.
C17_Witness ==
    /\ handle_log # <<>>
    /\ handle_log[Len(handle_log)] = "AssertionError"
    /\ futures # <<>>
    /\ fut_result[futures[1]] = {}
    /\ ball_count > 0
    /\ has_balls

\* C18: every step of wait_for_ball(), of track_eject(already_left=True) and
\* of the background loop that changes ball_count is made by an operation
\* that holds is_counting.
C18_LockHeldForMutation ==
    [][ball_count' # ball_count =>
          /\ _run => is_counting' = "run"
          /\ \A e \in Ejects : track_eject(e, TRUE) => is_counting = e
          /\ \A w \in Waiters : wait_for_ball(w) => is_counting = w]_vars

\* C19: a loop that wakes while is_counting is held queues for the lock
\* without changing ball_count, leaves the queue only when the lock is free,
\* taking it, and then writes into ball_count the count the Counter has at
\* the moment count_balls() returns, still holding the lock.
C19_Resync ==
    [][/\ (run_pc = "wait" /\ run_pc' # "wait" /\ locked) =>
            /\ run_pc' = "acq_resync"
            /\ UNCHANGED <<ball_count, is_counting>>
       /\ (run_pc = "acq_resync") =>
            /\ _run => ball_count' = ball_count
            /\ run_pc' # "acq_resync" =>
                  (~locked /\ is_counting' = "run" /\ run_pc' = "count")
       /\ (run_pc = "count") =>
            /\ is_counting = "run"
            /\ run_pc' # "count" => ball_count' = hw]_vars

\* C19 witness: the Counter went 0 -> 1 -> 2; the loop waited for a bracket
\* to end, read 2 from count_balls() and reconciles 2 against 0.
C19_Witness ==
    /\ run_pc = "notify"
    /\ run_resync
    /\ run_diff = 2
    /\ hw_changes = 2
    /\ ball_count = hw
    /\ is_counting = "run"

\* C21: in every state has_balls is set exactly when ball_count is positive:
\* no step leaves ball_count changed without has_balls following it.
C21_HasBallsDerived == has_balls <=> (ball_count > 0)

\* C25: every track_unknown_balls(n) call on a tracker completes: it adds n
\* to num_unknown_balls, leaves the unknown-balls slot resolved and raises
\* nothing.
C25_UnknownBallsAccumulate ==
    [][\A e \in Ejects : \A balls \in 1..MaxUnknown :
          track_unknown_balls(e, balls) =>
              /\ ej_num_unknown'[e] = ej_num_unknown[e] + balls
              /\ ej_unknown'[e]
              /\ n_invalid' = n_invalid]_vars

\* C27: the background loop is never ended by the "Event order problem"
\* assertion.
C27_LoopNeverCrashes == run_pc # "crashed"

\* C28: eject_started is set only while an eject bracket holds is_counting:
\* when it is set the lock is held by a caller whose start_eject() returned
\* and not by the background loop.
C28_EjectStartedImpliesLocked ==
    eject_started =>
        /\ locked
        /\ is_counting # "run"
        /\ \E e \in Ejects : is_counting = e /\ InBracket(e)

\* C28 witness: a bracket is open, the loop has woken and queues for the lock.
C28_Witness ==
    /\ eject_started
    /\ run_pc = "acq_resync"
    /\ \E e \in Ejects : is_counting = e /\ ej_pc[e] = "started"

\* C29: wait_for_ball() never lowers ball_count; and when the Counter only
\* went up from 0 and a wait_for_ball() that waited has returned, then, once
\* nothing is in progress and the loop has seen the Counter's count, every
\* ball counted was notified by exactly one ball_arrived() call.
C29_NoDoubleArrival ==
    [][/\ \A w \in Waiters : wait_for_ball(w) => ball_count' >= ball_count
       /\ (/\ Quiescent
           /\ hw = hw_changes
           /\ run_base = hw
           /\ \E w \in Waiters : wfb_pc[w] = "returned" /\ wfb_new[w] > 0) =>
              accounted = ball_count]_vars

\* C26: a suspended wait_for_ready_to_receive() returns once there is room
\* for the incoming balls for good, whether ball_count or the number of
\* incoming balls made it so.
C26_ReceiveLiveness ==
    []((rtr_pc = "suspended" /\ [](ball_capacity - ball_count > incoming))
          => <>(rtr_pc = "returned"))

\* No eject is under way and the background loop is running.
Settled ==
    /\ \A e \in Ejects : ej_pc[e] = "idle"
    /\ run_pc # "crashed"

\* No eject was classified returned (or is about to be).
NoneReturned == \A e \in Ejects : ej_outcome[e] # "returned"

\* C30: the Counter's count changes finitely often; when the ejects were
\* classified success or lost and none is under way any more, ball_count
\* eventually equals the Counter's count and stays equal.
C30_Convergence == ([]NoneReturned /\ <>[]Settled) => <>[](ball_count = hw)

\* C22: when the outcome slot of the tracker resolves with a classification
\* while the mid-eject routine is suspended, the routine cancels its entrance
\* and activity observers, applies the classification's effect on the count
\* and returns normally.
C22_OutcomeBranchReturns ==
    (med_pc \notin {"idle", "racing"} /\ ej_done["e1"] \subseteq Classifications)
        => /\ med_pc = "returned"
           /\ obs_entrance # "armed"
           /\ obs_activity # "armed"
           /\ handle_log = <<"done">>

\* C23: a wake-up of the mid-eject routine with the outcome slot unresolved
\* re-arms each observer that fired and leaves the others armed, and no
\* entrance taken from the tracker's queue is lost by it.
C23_RearmKeepsEntrances ==
    [][(MidWake("e1") /\ ej_done["e1"] = {})
          => /\ med_pc' = "racing"
             /\ obs_entrance' = "armed"
             /\ obs_activity' = "armed"
             /\ ball_count' = ball_count
             /\ med_dropped' = med_dropped]_vars

\* C24: the futures returned by wait_for_ball_left / wait_for_ball_return /
\* wait_for_ball_unknown_ball / wait_for_ready / wait_for_eject_done are views
\* of their slot: a view is done only with its slot resolved, a view asked for
\* after the resolution is done at once, and the cancellation of one view
\* changes neither a slot nor another view.
C24_SharedViews ==
    [][/\ \A v \in Views :
             view_state'[v] = "done" => SlotResolved("e1", view_slot[v])'
       /\ \A v \in Views :
             (view_state[v] = "none" /\ view_state'[v] # "none")
                 => (view_state'[v] = "done" <=> SlotResolved("e1", view_slot'[v]))
       /\ \A v \in Views :
             (view_state[v] = "pending" /\ view_state'[v] = "cancelled")
                 => /\ \A w \in Views \ {v} : view_state'[w] = view_state[w]
                    /\ \A slot \in Slots :
                          SlotResolved("e1", slot)' = SlotResolved("e1", slot)]_vars

\* Two waiters hold a view of _ball_left; one cancelled its view and the other
\* saw the resolution.
C24_Witness ==
    /\ view_slot["v1"] = "ball_left"
    /\ view_slot["v2"] = "ball_left"
    /\ view_state["v1"] = "cancelled"
    /\ view_state["v2"] = "done"
    /\ ej_ball_left["e1"]

\* C31: one eject classified success or lost lowers ball_count by one in
\* total, also when both the tracker's terminal method and the mid-eject
\* routine's _handle_eject_done() run for it: with one terminal call and one
\* resolved outcome, the count stays within one of the count the eject
\* started from (the Counter's count, plus one for a ball that already left).
C31_OneChangePerEject ==
    (/\ TrackerExists("e1")
     /\ ej_effects["e1"] <= 1
     /\ ej_done["e1"] \subseteq {"success", "lost"})
        => ball_count >= hw + (IF ej_al["e1"] THEN 1 ELSE 0) - 1

====
